---- MODULE Spec2Model ----
(***************************************************************************)
(* Model of the image-edit request pipeline of baW01/GenZ:                 *)
(*   - server/routes.ts  : the multer upload middleware and the            *)
(*                         POST /api/generate route handler                *)
(*   - replit.md (gemini.ts, fallback-chain version) : the dispatcher      *)
(*                         generateImageWithPrompt with its analysis       *)
(*                         pre-pass and its two candidate models           *)
(*   - the record store (./storage is not part of the sources; its         *)
(*     create/update/list contract is taken from the specification)        *)
(*   - server/routes.ts  : the GET /api/generations route handler          *)
(*   - server/gemini.ts  : the pure helpers stripDataUrl and padBase64     *)
(*   - the ImageGenerator page of the client (useState fields, the         *)
(*     generate mutation, the click handlers and the four result panels)   *)
(*                                                                         *)
(* Every request is a small process; one action is one synchronous         *)
(* segment of the handler between two await points, so that concurrent     *)
(* requests interleave exactly where the event loop lets them.             *)
(***************************************************************************)
EXTENDS Integers, Sequences, FiniteSets, TLC

VARIABLES req, generations, nUpdates, probe, client

vars == <<req, generations, nUpdates, probe, client>>

(***************************************************************************)
(* Bounds of the model.                                                    *)
(***************************************************************************)
NReq == 2
MaxPad == 1

(***************************************************************************)
(* Option values: a nullable / optional field is <<>> (null, undefined) or *)
(* <<x>>.                                                                  *)
(***************************************************************************)
None == <<>>
Some(x) == <<x>>
IsSome(o) == o /= <<>>
The(o) == o[1]

(***************************************************************************)
(* Strings that the code measures, trims or concatenates are sequences of  *)
(* one-character strings.  Messages that are only passed around are TLA+   *)
(* strings.                                                                *)
(***************************************************************************)
Rep(c, n) == [i \in 1..n |-> c]

WhiteSpace == {" ", "\n"}

MinOf(S) == CHOOSE x \in S : \A y \in S : x <= y
MaxOf(S) == CHOOSE x \in S : \A y \in S : x >= y

\* String.prototype.trim: drop leading and trailing white space.  lead and
\* trail count the white-space characters at either end.
Trim(s) ==
    LET n == Len(s)
        lead == CHOOSE k \in 0..n :
                    /\ k = n \/ s[k + 1] \notin WhiteSpace
                    /\ \A j \in 1..k : s[j] \in WhiteSpace
        trail == CHOOSE k \in 0..n :
                     /\ k = n \/ s[n - k] \notin WhiteSpace
                     /\ \A j \in 1..k : s[n - j + 1] \in WhiteSpace
    IN  IF lead = n THEN <<>> ELSE SubSeq(s, lead + 1, n - trail)

\* A thrown value: an Error with its message, or something that is no Error.
ErrorOf(m) == [isError |-> TRUE, message |-> m]
NonError == [isError |-> FALSE, message |-> ""]

\* error instanceof Error ? error.message : d
MessageOr(e, d) == IF e.isError THEN e.message ELSE d

\* String.prototype.startsWith
StartsWith(s, p) == Len(s) >= Len(p) /\ SubSeq(s, 1, Len(p)) = p

(***************************************************************************)
(* routes.ts: constants of the upload middleware and of the handler.       *)
(***************************************************************************)
FileSizeLimit == 10 * 1024 * 1024
PromptLimit == 500
ImagePrefix == <<"i", "m", "a", "g", "e", "/">>
DataUrlPrefix ==
    <<"d", "a", "t", "a", ":", "i", "m", "a", "g", "e", "/", "p", "n", "g",
      ";", "b", "a", "s", "e", "6", "4", ",">>

MimePng == ImagePrefix \o <<"p", "n", "g">>
MimeGif == ImagePrefix \o <<"g", "i", "f">>
MimeText == <<"t", "e", "x", "t", "/", "p", "l", "a", "i", "n">>

(***************************************************************************)
(* The request processes.                                                  *)
(***************************************************************************)
Reqs == 1..NReq

\* An upload: the declared mime type and the size of the file in bytes.
File(m, n) == [mimetype |-> m, size |-> n]

\* What the clients send when several requests run concurrently.
Files ==
    {None, Some(File(MimePng, 1)), Some(File(MimePng, 0)),
     Some(File(MimeText, 1))}
Prompts == {Some(<<" ">>), Some(<<" ", "a">>)}

\* What a single client may send: the boundaries of every intake check.
FilesWide ==
    {None} \cup
    {Some(File(m, n)) : m \in {MimePng, MimeGif, MimeText},
                        n \in {0, 1, FileSizeLimit - 1, FileSizeLimit,
                               FileSizeLimit + 1}}
PromptsWide ==
    {None} \cup
    {Some(Rep(" ", l) \o Rep("a", n) \o Rep("\n", t)) :
        l \in 0..MaxPad, t \in 0..MaxPad,
        n \in {0, 1, PromptLimit - 2, PromptLimit - 1, PromptLimit,
               PromptLimit + 1}}

\* Buffer.toString('base64') (routes.ts:50): 4 characters for every 3 bytes,
\* so the text is empty exactly when the buffer is.  Only its length is kept.
Base64Len(n) == 4 * ((n + 2) \div 3)

\* A response not yet sent, and the fields a JSON body may carry.
NoBody == [success |-> None, error |-> None, generation |-> None,
           imageUrl |-> None]
Response(st, who, b) == [status |-> st, by |-> who, body |-> b]

\* nSent counts the responses sent for the request.
\* analysis, finalPrompt and replies record what the dispatcher has asked of
\* the external service and what it got back: whether the analysis call has
\* answered or raised, the instruction built from its answer and, for each
\* generation call, what the call raised and the text of its answer.
IdleReq ==
    [pc |-> "idle", file |-> None, prompt |-> None, genId |-> 0,
     anchor |-> <<>>, calls |-> <<>>, result |-> None, updated |-> None,
     thrown |-> None, response |-> None,
     analysis |-> "none", finalPrompt |-> <<>>, replies |-> <<>>,
     nSent |-> 0]

\* No pure function applied and no list request served yet.
NoProbe == [op |-> "none"]

\* part_000:22-29  the page as first rendered: no file, an empty prompt, no
\* generated image, the mutation idle; inFlight counts the fetches of
\* mutationFn that have not settled, sent is the argument of the last mutate.
Mounted ==
    [selectedFile |-> None, prompt |-> <<>>, generatedImageUrl |-> None,
     status |-> "idle", error |-> None, sent |-> None, inFlight |-> 0]

Init ==
    /\ req = [r \in Reqs |-> IdleReq]
    /\ generations = <<>>
    /\ nUpdates = <<>>
    /\ probe = NoProbe
    /\ client = Mounted

\* A client sends POST /api/generate.
Receive(r, env) ==
    /\ req[r].pc = "idle"
    /\ \E f \in env.files, p \in env.prompts :
          req' = [req EXCEPT ![r].pc = "upload", ![r].file = f,
                             ![r].prompt = p]
    /\ UNCHANGED <<generations, nUpdates, probe, client>>

(***************************************************************************)
(* routes.ts:9-21,25  the upload middleware, upload.single('image').       *)
(* multer asks fileFilter when the file part starts and counts the bytes   *)
(* against limits.fileSize while it reads them; either rejection is handed *)
(* to next(err), so the route handler is skipped and the framework's error *)
(* path answers.                                                           *)
(***************************************************************************)
FileFilter(f) == StartsWith(f.mimetype, ImagePrefix)

ExceedsFileSize(f) == f.size > FileSizeLimit

\* The error multer passes to next(), if any.  Neither error object carries
\* a status: routes.ts:18 builds a plain Error, multer a MulterError.
UploadError(file) ==
    IF ~IsSome(file) THEN None
    ELSE IF ~FileFilter(The(file))
         THEN Some([message |-> "Only image files are allowed",
                    status |-> None])
    ELSE IF ExceedsFileSize(The(file))
         THEN Some([message |-> "File too large", status |-> None])
    ELSE None

\* The framework's answer to next(err): the error's own status when it has
\* one, 500 otherwise.
FrameworkStatus(err) == IF IsSome(err.status) THEN The(err.status) ELSE 500

Upload(r) ==
    /\ req[r].pc = "upload"
    /\ LET err == UploadError(req[r].file)
       IN  IF IsSome(err)
           THEN req' = [req EXCEPT
                   ![r].pc = "done", ![r].nSent = @ + 1,
                   ![r].response =
                       Some(Response(FrameworkStatus(The(err)), "framework",
                                     NoBody))]
           ELSE req' = [req EXCEPT ![r].pc = "handler"]
    /\ UNCHANGED <<generations, nUpdates, probe, client>>

(***************************************************************************)
(* routes.ts:26-38  intake validation at the top of the route handler.     *)
(***************************************************************************)
\* The emptiness test without the trim: !prompt alone.
PromptMissingNoTrim(p) == ~IsSome(p) \/ Len(The(p)) = 0

\* The length test applied to the trimmed prompt instead of the raw one.
PromptTooLongTrimmed(p) == Len(Trim(The(p))) > PromptLimit

\* !prompt || prompt.trim().length === 0
PromptMissing(p) ==
    \/ ~IsSome(p)
    \/ Len(The(p)) = 0
    \/ Len(Trim(The(p))) = 0

\* prompt.length > 500
PromptTooLong(p) == Len(The(p)) > PromptLimit

\* The checks of the prompt alone: a request without a file passes them.
IntakeErrorNoFileCheck(file, p) ==
    IF PromptMissing(p) THEN Some("Prompt is required")
    ELSE IF PromptTooLong(p) THEN Some("Prompt must be 500 characters or less")
    ELSE None

\* The error string of the first failing check, None when all pass.
IntakeError(file, p) ==
    IF ~IsSome(file) THEN Some("No image file provided")
    ELSE IF PromptMissing(p) THEN Some("Prompt is required")
    ELSE IF PromptTooLong(p) THEN Some("Prompt must be 500 characters or less")
    ELSE None

Validate(r) ==
    /\ req[r].pc = "handler"
    /\ LET e == IntakeError(req[r].file, req[r].prompt)
       IN  IF IsSome(e)
           THEN req' = [req EXCEPT
                   ![r].pc = "done", ![r].nSent = @ + 1,
                   ![r].response =
                       Some(Response(400, "route",
                                     [NoBody EXCEPT !.error = e]))]
           ELSE req' = [req EXCEPT ![r].pc = "create"]
    /\ UNCHANGED <<generations, nUpdates, probe, client>>

(***************************************************************************)
(* The record store.  routes.ts:136-144 is the record layout; the store's  *)
(* operations follow the specification (4.4): create allocates a fresh id, *)
(* update applies a partial patch to the record with that id.  A store     *)
(* call may also fail and raise.                                           *)
(***************************************************************************)
StoreErrors == {ErrorOf("store unavailable")}

\* routes.ts:41-47 the values the handler inserts, completed by the
\* defaults of the table; createdAt is the logical time of the insert.
NewGeneration(id, p) ==
    [id |-> id, prompt |-> p, originalImageUrl |-> None,
     generatedImageUrl |-> None, status |-> "pending", errorMessage |-> None,
     createdAt |-> id]

\* insert: the id is fresh.
StoreCreate(p) == Append(generations, NewGeneration(Len(generations) + 1, p))

\* update: the fields named by the patch are overwritten, the others kept.
ApplyPatch(rec, patch) ==
    [k \in DOMAIN rec |-> IF k \in DOMAIN patch THEN patch[k] ELSE rec[k]]

StoreUpdate(id, patch) ==
    [generations EXCEPT ![id] = ApplyPatch(generations[id], patch)]

\* routes.ts:41-47  await storage.createGeneration(...)
CreateGeneration(r) ==
    /\ req[r].pc = "create"
    /\ \/ /\ generations' = StoreCreate(Trim(The(req[r].prompt)))
          /\ nUpdates' = Append(nUpdates, 0)
          /\ req' = [req EXCEPT ![r].pc = "dispatch",
                                ![r].genId = Len(generations) + 1]
          /\ UNCHANGED <<probe, client>>
       \/ /\ \E m \in StoreErrors :
                req' = [req EXCEPT ![r].pc = "catch", ![r].thrown = Some(m)]
          /\ UNCHANGED <<generations, nUpdates, probe, client>>

(***************************************************************************)
(* The external service.  A response is a list of candidates, a candidate  *)
(* a list of parts; a part may carry an image under inlineData, an image   *)
(* under media[0], or text.                                                *)
(***************************************************************************)
Blob(d, m) == [data |-> d, mimeType |-> m]
Part(inl, med, txt) == [inlineData |-> inl, media |-> med, text |-> txt]
InlinePart(d) == Part(Some(Blob(d, MimePng)), None, None)
MediaPart(d) == Part(None, Some(Blob(d, MimePng)), None)
TextPart(t) == Part(None, None, Some(t))

PayloadA == <<"Q", "U", "J", "D">>
PayloadB == <<"R", "E", "Y", "=">>

\* A response of the service: its list of candidates sits at the top level,
\* or in a wrapper named response, depending on the version of the SDK.
\* Some versions also give the whole text of the answer as res.text.
RawResponse(wrapper, top) ==
    [response |-> wrapper, candidates |-> top, text |-> None]
WithText(res, t) == [res EXCEPT !.text = Some(t)]
Bare(cands) == RawResponse(None, Some(cands))
InWrapper(cands) == RawResponse(Some([candidates |-> Some(cands)]), None)

\* What a generation call may answer, when it answers: an image, when
\* several requests run concurrently (a call then fails by raising); for a
\* single client also no candidate, text only, an inlineData part without
\* data, an image under media[0].
GenResponses == {Bare(<< <<InlinePart(PayloadA)>> >>)}
GenResponsesWide ==
    {Bare(<<>>),
     Bare(<< <<TextPart(<<"n", "o">>)>> >>),
     Bare(<< <<InlinePart(PayloadA)>> >>),
     Bare(<< <<Part(Some(Blob(<<>>, MimePng)), None, None)>> >>),
     InWrapper(<< <<TextPart(<<"o", "k">>), MediaPart(PayloadB)>> >>)}

\* What a call to the service may raise.
ServiceErrors == {ErrorOf("quota exceeded")}
ServiceErrorsWide == {ErrorOf(""), ErrorOf("quota exceeded"), NonError}

\* What the analysis call may answer: no text, or a short description.
AnalysisTexts == {<<>>}
AnalysisTextsWide == {<<>>, <<" ", "c", "a", "t">>}

\* Array.prototype.find: the first element among those, at the indices
\* hits, that satisfy the test.
Find(parts, hits) == IF hits = {} THEN None ELSE Some(parts[MinOf(hits)])

IsImageBlob(b) ==
    IsSome(b) /\ Len(The(b).data) > 0 /\ StartsWith(The(b).mimeType, ImagePrefix)

\* replit.md:93-95  extractCandidates:
\* res?.response?.candidates ?? res?.candidates ?? []
extractCandidates(res) ==
    IF IsSome(res.response) /\ IsSome(The(res.response).candidates)
    THEN The(The(res.response).candidates)
    ELSE IF IsSome(res.candidates) THEN The(res.candidates)
    ELSE <<>>

\* Extraction in the order of the parts: the image of the first part that
\* carries one, under whichever layout.
extractImageFirstPart(res) ==
    LET candidates == extractCandidates(res)
    IN  IF Len(candidates) = 0 THEN None
        ELSE LET parts == candidates[1]
                 any == Find(parts,
                             {i \in 1..Len(parts) :
                                 \/ IsImageBlob(parts[i].inlineData)
                                 \/ IsImageBlob(parts[i].media)})
             IN  IF ~IsSome(any) THEN None
                 ELSE IF IsImageBlob(The(any).inlineData)
                 THEN Some(The(The(any).inlineData).data)
                 ELSE Some(The(The(any).media).data)

\* replit.md:97-116  extractImageBase64
extractImageBase64(res) ==
    IF Len(extractCandidates(res)) = 0 THEN None
    ELSE LET parts == extractCandidates(res)[1]
             idx == 1..Len(parts)
             imgPart ==
                 Find(parts, {i \in idx : IsImageBlob(parts[i].inlineData)})
             alt == Find(parts, {i \in idx : IsImageBlob(parts[i].media)})
         IN  IF IsSome(imgPart) THEN Some(The(The(imgPart).inlineData).data)
             ELSE IF IsSome(alt) THEN Some(The(The(alt).media).data)
             ELSE None

(***************************************************************************)
(* replit.md:200-249  generateImageWithPrompt, the dispatcher.             *)
(***************************************************************************)
PrimaryModel == "gemini-2.0-flash-preview-image-generation"
FallbackModel == "gemini-2.5-flash-image-preview"
Candidates == <<PrimaryModel, FallbackModel>>

Success(d) == [success |-> TRUE, imageData |-> Some(d), error |-> None]
Failure(m) == [success |-> FALSE, imageData |-> None, error |-> Some(m)]

\* A generation call that takes any inlineData part for an image, without
\* testing that it has data.
tryGenerateAnyBlob(res) ==
    LET cands == extractCandidates(res)
        parts == IF Len(cands) = 0 THEN <<>> ELSE cands[1]
        hit == Find(parts, {i \in 1..Len(parts) : IsSome(parts[i].inlineData)})
    IN  IF ~IsSome(hit)
        THEN Failure("Invalid response format (no image part)")
        ELSE Success(The(The(hit).inlineData).data)

\* replit.md:168-196  tryGenerateWithModel, once the service has answered.
tryGenerateWithModel(res) ==
    LET outBase64 == extractImageBase64(res)
    IN  IF ~IsSome(outBase64)
        THEN Failure("Invalid response format (no image part)")
        ELSE Success(The(outBase64))

\* replit.md:204-209  the dispatcher's own checks of the request that
\* routes.ts:53-57 hands it: the base64 text of the buffer, the declared
\* mime type and the trimmed prompt.
RequestError(file, p) ==
    IF Base64Len(file.size) = 0 \/ Len(file.mimetype) = 0
    THEN Some("Image data and mimeType are required")
    ELSE IF Len(Trim(p)) = 0 THEN Some("Prompt is required")
    ELSE None

\* routes.ts:49-57, replit.md:203-216: up to the first await of the dispatcher.
DispatchStart(r) ==
    /\ req[r].pc = "dispatch"
    /\ LET e == RequestError(The(req[r].file), Trim(The(req[r].prompt)))
       IN  IF IsSome(e)
           THEN req' = [req EXCEPT ![r].pc = "update",
                                   ![r].result = Some(Failure(The(e)))]
           ELSE req' = [req EXCEPT ![r].pc = "analyze"]
    /\ UNCHANGED <<generations, nUpdates, probe, client>>

\* String.prototype.slice(0, n)
Slice(s, n) == SubSeq(s, 1, IF Len(s) < n THEN Len(s) ELSE n)

\* replit.md:118-125  extractText: res.text when it is not blank, else the
\* text of the first part of the first candidate whose text is not blank.
extractText(res) ==
    IF IsSome(res.text) /\ Len(Trim(The(res.text))) > 0 THEN res.text
    ELSE IF Len(extractCandidates(res)) = 0 THEN None
    ELSE LET parts == extractCandidates(res)[1]
             textPart ==
                 Find(parts, {i \in 1..Len(parts) :
                                 /\ IsSome(parts[i].text)
                                 /\ Len(Trim(The(parts[i].text))) > 0})
         IN  IF IsSome(textPart) THEN The(textPart).text ELSE None

\* replit.md:129-135  EDIT_PREFIX: five sentences joined by a space.  A
\* sentence of a fixed text is kept as one symbol of the string.
EDIT_PREFIX ==
    <<"EDIT THE PROVIDED IMAGE ONLY.", " ",
      "Use the uploaded image as the base.", " ",
      "Do NOT generate a new scene from scratch.", " ",
      "Preserve subject identity, pose and composition unless changes are explicitly requested.",
      " ", "Apply only these changes:">>

PreserveLead ==
    <<"\n", "PRESERVE these factual properties of the input image: ">>

\* replit.md:223-226  preserveLine and finalPrompt.
preserveLine(anchor) ==
    IF Len(anchor) > 0 THEN PreserveLead \o anchor ELSE <<>>
finalPrompt(anchor, prompt) ==
    EDIT_PREFIX \o preserveLine(anchor) \o <<"\n">> \o prompt

\* What the analysis call may raise.
AnalysisErrors == {ErrorOf("analysis unavailable")}

\* The analysis pre-pass without its own try/catch: an error raised by the
\* analysis call reaches the dispatcher's catch and ends the dispatch.
AnalyzeFatal(r, env) ==
    /\ req[r].pc = "analyze"
    /\ \/ \E t \in env.texts :
             LET anchor == Slice(Trim(t), 500)
             IN  req' = [req EXCEPT
                    ![r].pc = "try1", ![r].anchor = anchor,
                    ![r].analysis = "answered",
                    ![r].finalPrompt =
                        finalPrompt(anchor, Trim(The(req[r].prompt)))]
       \/ \E e \in env.faults :
             req' = [req EXCEPT
                ![r].pc = "update", ![r].analysis = "raised",
                ![r].result =
                    Some(Failure(MessageOr(e, "Unknown error occurred")))]
    /\ UNCHANGED <<generations, nUpdates, probe, client>>

\* replit.md:142-162, 214-226: the analysis pre-pass and the instruction
\* built from it; a raised error leaves the anchor empty.
Analyze(r, env) ==
    /\ req[r].pc = "analyze"
    /\ \/ \E t \in env.texts :
             LET anchor == Slice(Trim(t), 500)
             IN  req' = [req EXCEPT
                    ![r].pc = "try1", ![r].anchor = anchor,
                    ![r].analysis = "answered",
                    ![r].finalPrompt =
                        finalPrompt(anchor, Trim(The(req[r].prompt)))]
       \/ \E e \in env.faults :
             req' = [req EXCEPT
                ![r].pc = "try1", ![r].anchor = <<>>,
                ![r].analysis = "raised",
                ![r].finalPrompt =
                    finalPrompt(<<>>, Trim(The(req[r].prompt)))]
    /\ UNCHANGED <<generations, nUpdates, probe, client>>

\* One entry of a request's log of generation calls.
Call(m, img) == [model |-> m, image |-> img]

\* What came back from a generation call: the error it raised, or the text
\* of its answer.
Reply(e, txt) == [raised |-> e, text |-> txt]
Answer(r, res) == Reply(None, extractText(res))
Raise(r, e) == Reply(Some(e), None)

\* The primary call without the early return: the fallback is called even
\* when the primary model has produced an image.
TryPrimaryNoReturn(r, env) ==
    /\ req[r].pc = "try1"
    /\ \/ \E res \in env.responses :
             LET r1 == tryGenerateWithModel(res)
             IN  req' = [req EXCEPT
                    ![r].pc = "try2",
                    ![r].calls =
                        Append(req[r].calls, Call(Candidates[1], r1.imageData)),
                    ![r].replies = Append(req[r].replies, Answer(r, res)),
                    ![r].result = IF r1.success THEN Some(r1) ELSE None]
       \/ \E e \in env.errors :
             req' = [req EXCEPT
                ![r].pc = "try2",
                ![r].calls = Append(req[r].calls, Call(Candidates[1], None)),
                ![r].replies = Append(req[r].replies, Raise(r, e))]
    /\ UNCHANGED <<generations, nUpdates, probe, client>>

\* The primary call without its own try/catch, and with any failure taken
\* as final: the fallback model is never tried.
TryPrimaryFatal(r, env) ==
    /\ req[r].pc = "try1"
    /\ \/ \E res \in env.responses :
             LET r1 == tryGenerateWithModel(res)
             IN  req' = [req EXCEPT
                    ![r].pc = "update",
                    ![r].calls =
                        Append(req[r].calls, Call(Candidates[1], r1.imageData)),
                    ![r].replies = Append(req[r].replies, Answer(r, res)),
                    ![r].result = Some(r1)]
       \/ \E e \in env.errors :
             req' = [req EXCEPT
                ![r].pc = "update",
                ![r].calls = Append(req[r].calls, Call(Candidates[1], None)),
                ![r].replies = Append(req[r].replies, Raise(r, e)),
                ![r].result =
                    Some(Failure(MessageOr(e, "Unknown error occurred")))]
    /\ UNCHANGED <<generations, nUpdates, probe, client>>

\* replit.md:232-238  the call to the primary model; an error it raises is
\* swallowed.
TryPrimary(r, env) ==
    /\ req[r].pc = "try1"
    /\ \/ \E res \in env.responses :
             LET r1 == tryGenerateWithModel(res)
                 log == Append(req[r].calls, Call(Candidates[1], r1.imageData))
                 got == Append(req[r].replies, Answer(r, res))
             IN  IF r1.success
                 THEN req' = [req EXCEPT ![r].pc = "update", ![r].calls = log,
                                         ![r].replies = got,
                                         ![r].result = Some(r1)]
                 ELSE req' = [req EXCEPT ![r].pc = "try2", ![r].calls = log,
                                         ![r].replies = got]
       \/ \E e \in env.errors :
             req' = [req EXCEPT
                ![r].pc = "try2",
                ![r].calls = Append(req[r].calls, Call(Candidates[1], None)),
                ![r].replies = Append(req[r].replies, Raise(r, e))]
    /\ UNCHANGED <<generations, nUpdates, probe, client>>

\* The fallback call without the dispatcher's catch: an error it raises
\* leaves the dispatcher and reaches the catch block of the route handler.
TryFallbackRaises(r, env) ==
    /\ req[r].pc = "try2"
    /\ \/ \E res \in env.responses :
             LET r2 == tryGenerateWithModel(res)
             IN  req' = [req EXCEPT
                    ![r].pc = "update",
                    ![r].calls =
                        Append(req[r].calls, Call(Candidates[2], r2.imageData)),
                    ![r].replies = Append(req[r].replies, Answer(r, res)),
                    ![r].result = Some(r2)]
       \/ \E e \in env.errors :
             req' = [req EXCEPT
                ![r].pc = "catch",
                ![r].calls = Append(req[r].calls, Call(Candidates[2], None)),
                ![r].replies = Append(req[r].replies, Raise(r, e)),
                ![r].thrown = Some(e)]
    /\ UNCHANGED <<generations, nUpdates, probe, client>>

\* replit.md:240-248  the call to the fallback model; an error it raises
\* reaches the dispatcher's catch.
TryFallback(r, env) ==
    /\ req[r].pc = "try2"
    /\ \/ \E res \in env.responses :
             LET r2 == tryGenerateWithModel(res)
             IN  req' = [req EXCEPT
                    ![r].pc = "update",
                    ![r].calls =
                        Append(req[r].calls, Call(Candidates[2], r2.imageData)),
                    ![r].replies = Append(req[r].replies, Answer(r, res)),
                    ![r].result = Some(r2)]
       \/ \E e \in env.errors :
             req' = [req EXCEPT
                ![r].pc = "update",
                ![r].calls = Append(req[r].calls, Call(Candidates[2], None)),
                ![r].replies = Append(req[r].replies, Raise(r, e)),
                ![r].result =
                    Some(Failure(MessageOr(e, "Unknown error occurred")))]
    /\ UNCHANGED <<generations, nUpdates, probe, client>>

(***************************************************************************)
(* routes.ts:59-89  the outcome: one store update, then the response; the  *)
(* catch block answers for anything raised inside the try.                 *)
(***************************************************************************)
\* a || b on an optional string: b when a is undefined or empty.
OrElse(a, b) == IF IsSome(a) /\ The(a) /= "" THEN The(a) ELSE b

\* routes.ts:59  result.success && result.imageData
TakesSuccessBranch(result) ==
    /\ result.success
    /\ IsSome(result.imageData)
    /\ Len(The(result.imageData)) > 0

\* The bare payload, without the data-URL prefix.
GeneratedUrlBare(result) == The(result.imageData)

\* routes.ts:63,69  `data:image/png;base64,${result.imageData}`
GeneratedUrl(result) == DataUrlPrefix \o The(result.imageData)

\* A patch that always names both outcome fields, the unused one as an
\* empty string.
OutcomePatchBoth(result) ==
    IF TakesSuccessBranch(result)
    THEN [status |-> "completed",
          generatedImageUrl |-> Some(GeneratedUrl(result)),
          errorMessage |-> Some("")]
    ELSE [status |-> "failed",
          generatedImageUrl |-> Some(<<>>),
          errorMessage |-> Some(OrElse(result.error, "Unknown error"))]

\* routes.ts:61-64, 73-76  the patch handed to the store.
OutcomePatch(result) ==
    IF TakesSuccessBranch(result)
    THEN [status |-> "completed",
          generatedImageUrl |-> Some(GeneratedUrl(result))]
    ELSE [status |-> "failed",
          errorMessage |-> Some(OrElse(result.error, "Unknown error"))]

\* A handler that keeps the created record in a variable shared by all
\* requests updates the record created last.
TargetIdShared(r) == Len(generations)

\* A handler that finds its record by status instead of by id updates the
\* oldest record that is still pending.
TargetIdOldestPending(r) ==
    LET waiting == {i \in 1..Len(generations) :
                       generations[i].status = "pending"}
    IN  IF waiting = {} THEN req[r].genId ELSE MinOf(waiting)

\* routes.ts:61,73  generation.id: the record this handler created.
TargetId(r) == req[r].genId

\* routes.ts:66-70, 78-81  the body of the response after the update.
OutcomeResponse(result, updated) ==
    IF TakesSuccessBranch(result)
    THEN Response(200, "route",
                  [NoBody EXCEPT !.success = Some(TRUE),
                                 !.generation = updated,
                                 !.imageUrl = Some(GeneratedUrl(result))])
    ELSE Response(500, "route",
                  [NoBody EXCEPT
                      !.success = Some(FALSE),
                      !.error = Some(OrElse(result.error,
                                            "Failed to generate image"))])

\* routes.ts:61,73  await storage.updateGeneration(generation.id, patch)
UpdateGeneration(r) ==
    /\ req[r].pc = "update"
    /\ \/ LET id == TargetId(r)
              after == StoreUpdate(id, OutcomePatch(The(req[r].result)))
          IN  /\ generations' = after
              /\ nUpdates' = [nUpdates EXCEPT ![id] = @ + 1]
              /\ req' = [req EXCEPT ![r].pc = "respond",
                                    ![r].updated = Some(after[id])]
              /\ UNCHANGED <<probe, client>>
       \/ /\ \E m \in StoreErrors :
                req' = [req EXCEPT ![r].pc = "catch", ![r].thrown = Some(m)]
          /\ UNCHANGED <<generations, nUpdates, probe, client>>

\* A response after which the try block still raises: the catch block then
\* answers a second time.
RespondThrows(r) ==
    /\ req[r].pc = "respond"
    /\ req' = [req EXCEPT
          ![r].pc = "catch", ![r].nSent = @ + 1,
          ![r].thrown = Some(ErrorOf("raised after the response")),
          ![r].response =
              Some(OutcomeResponse(The(req[r].result), req[r].updated))]
    /\ UNCHANGED <<generations, nUpdates, probe, client>>

\* routes.ts:66-70, 78-81  res.json / res.status(500).json
Respond(r) ==
    /\ req[r].pc = "respond"
    /\ req' = [req EXCEPT
          ![r].pc = "done", ![r].nSent = @ + 1,
          ![r].response =
              Some(OutcomeResponse(The(req[r].result), req[r].updated))]
    /\ UNCHANGED <<generations, nUpdates, probe, client>>

\* routes.ts:83-89  the catch block of the handler.
Catch(r) ==
    /\ req[r].pc = "catch"
    /\ req' = [req EXCEPT
          ![r].pc = "done", ![r].nSent = @ + 1,
          ![r].response =
              Some(Response(500, "route",
                            [NoBody EXCEPT
                                !.success = Some(FALSE),
                                !.error =
                                    Some(MessageOr(The(req[r].thrown),
                                                   "Internal server error"))]))]
    /\ UNCHANGED <<generations, nUpdates, probe, client>>

(***************************************************************************)
(* The specifications.  Spec: NReq clients post concurrently.  SpecSingle: *)
(* one client posts, with inputs on every boundary of the intake checks.   *)
(* SpecList and SpecPure are defined further down, with the list endpoint  *)
(* and with the pure helpers.                                              *)
(***************************************************************************)
\* What the clients and the external service may do, in each specification.
Env ==
    [files |-> Files, prompts |-> Prompts, texts |-> AnalysisTexts,
     responses |-> GenResponses, errors |-> ServiceErrors,
     faults |-> AnalysisErrors]
EnvWide ==
    [files |-> FilesWide, prompts |-> PromptsWide, texts |-> AnalysisTextsWide,
     responses |-> GenResponsesWide, errors |-> ServiceErrorsWide,
     faults |-> AnalysisErrors]

Step(r, env) ==
    \/ Receive(r, env)
    \/ Upload(r)
    \/ Validate(r)
    \/ CreateGeneration(r)
    \/ DispatchStart(r)
    \/ Analyze(r, env)
    \/ TryPrimary(r, env)
    \/ TryFallback(r, env)
    \/ UpdateGeneration(r)
    \/ Respond(r)
    \/ Catch(r)

Next == \E r \in Reqs : Step(r, Env)

Spec == Init /\ [][Next]_vars

NextSingle == Step(1, EnvWide)

SpecSingle == Init /\ [][NextSingle]_vars

\* The same with progress: the event loop runs every continuation that is
\* ready, and every call of the store or of the service answers or raises.
SpecSingleFair == SpecSingle /\ WF_vars(NextSingle)

(***************************************************************************)
(* Vocabulary of the properties.                                           *)
(***************************************************************************)
Terminal == {"completed", "failed"}
Ids == 1..Len(generations)
Answered(r) == req[r].pc = "done"
Resp(r) == The(req[r].response)

(***************************************************************************)
(* C1.  Under any interleaving of POST /api/generate requests a record's   *)
(* status only moves pending -> completed or pending -> failed, a record   *)
(* in a terminal state is never changed again, and no record receives      *)
(* more than one update.                                                   *)
(***************************************************************************)
C1_StatusMonotonic ==
    [][\A id \in Ids :
          /\ generations'[id].status /= generations[id].status
                => /\ generations[id].status = "pending"
                   /\ generations'[id].status \in Terminal
          /\ generations[id].status \in Terminal
                => generations'[id] = generations[id]
          /\ nUpdates'[id] <= 1]_vars

\* Two concurrent requests have both brought their records to a terminal
\* state, the later-created record first.
C1_Witness ==
    /\ Len(generations) = 2
    /\ generations[1].status = "completed"
    /\ generations[2].status = "failed"
    /\ \E r \in Reqs : req[r].genId = 1 /\ req[r].pc = "respond"
    /\ \E r \in Reqs : req[r].genId = 2 /\ req[r].pc = "done"

(***************************************************************************)
(* C2.  Once a request that created a record has been answered, that       *)
(* record is in a terminal state, reached by exactly one update: completed *)
(* with generatedImageUrl set or failed with errorMessage set, whatever    *)
(* the dispatcher and the store's update did.                              *)
(***************************************************************************)
C2_TerminalWhenAnswered ==
    \A r \in Reqs :
        (Answered(r) /\ req[r].genId /= 0)
            => LET g == generations[req[r].genId]
               IN  /\ g.status \in Terminal
                   /\ nUpdates[req[r].genId] = 1
                   /\ g.status = "completed" => IsSome(g.generatedImageUrl)
                   /\ g.status = "failed" => IsSome(g.errorMessage)

(***************************************************************************)
(* Vocabulary of the intake properties.                                    *)
(***************************************************************************)
\* The request has been received.
Arrived(r) == req[r].pc /= "idle"

\* The file is an image within the size limit.
GoodImage(file) ==
    /\ IsSome(file)
    /\ SubSeq(The(file).mimetype, 1, 6) = <<"i", "m", "a", "g", "e", "/">>
    /\ The(file).size <= 10485760

\* The upload middleware has let the request through, and the route handler
\* has run its intake checks.
Validated(r) ==
    /\ req[r].pc \notin {"idle", "upload", "handler"}
    /\ req[r].file = None \/ GoodImage(req[r].file)

\* The handler has run its intake checks and gone on to create a record.
Accepted(r) ==
    \/ req[r].pc \in {"create", "dispatch", "analyze", "try1", "try2",
                      "update", "respond", "catch"}
    \/ Answered(r) /\ Resp(r).by = "route" /\ Resp(r).status /= 400

\* The handler has answered 400.
Rejected(r) ==
    Answered(r) /\ Resp(r).by = "route" /\ Resp(r).status = 400

\* No store call and no call of the external service was made for r.
Untouched(r) ==
    /\ req[r].genId = 0
    /\ req[r].calls = <<>>
    /\ req[r].result = None
    /\ req[r].thrown = None
    /\ generations = <<>>

(***************************************************************************)
(* C3.  A request whose upload the middleware lets through and that fails   *)
(* the handler's intake validation (no file attached, prompt missing or    *)
(* empty after trimming, prompt longer than 500 characters) is answered    *)
(* 400 with a non-empty error string, and for such a request the record    *)
(* store and the external service are never called.  (One client: the      *)
(* store stays empty.)                                                     *)
(***************************************************************************)
C3_ValidationFailure ==
    \A r \in Reqs :
        LET f == req[r].file
            p == req[r].prompt
            bad == \/ f = None
                   \/ p = None
                   \/ \A i \in 1..Len(The(p)) : The(p)[i] \in {" ", "\n"}
                   \/ Len(The(p)) > 500
        IN  (Arrived(r) /\ (f = None \/ GoodImage(f)) /\ bad)
               => /\ req[r].pc \in {"upload", "handler", "done"}
                  /\ Untouched(r)
                  /\ Answered(r) =>
                        /\ Resp(r).by = "route"
                        /\ Resp(r).status = 400
                        /\ IsSome(Resp(r).body.error)
                        /\ The(Resp(r).body.error) /= ""

\* An image with a prompt of white space only has been answered 400.
C3_Witness ==
    /\ Answered(1)
    /\ GoodImage(req[1].file)
    /\ req[1].prompt = Some(<<" ", "\n">>)
    /\ Resp(1).status = 400
    /\ generations = <<>>

(***************************************************************************)
(* C4.  An upload whose declared mime type is not an image type is         *)
(* answered with status 400, and no record is created for it.              *)
(***************************************************************************)
C4_BadMimeIs400 ==
    \A r \in Reqs :
        (/\ Answered(r)
         /\ IsSome(req[r].file)
         /\ SubSeq(The(req[r].file).mimetype, 1, 6)
               /= <<"i", "m", "a", "g", "e", "/">>)
            => Resp(r).status = 400 /\ req[r].genId = 0

(***************************************************************************)
(* C5.  An upload larger than 10 MiB is answered with a 4xx status and no  *)
(* record is created for it; an image of exactly 10 MiB passes the upload  *)
(* middleware.                                                             *)
(***************************************************************************)
C5_TooLargeIs4xx ==
    \A r \in Reqs :
        /\ (Answered(r) /\ IsSome(req[r].file)
                        /\ The(req[r].file).size > 10485760)
              => Resp(r).status \in 400..499 /\ req[r].genId = 0
        /\ (Answered(r) /\ GoodImage(req[r].file)
                        /\ The(req[r].file).size = 10485760)
              => Resp(r).by = "route"

(***************************************************************************)
(* C6 (as claimed).  With an image attached, the prompt that is stored     *)
(* and dispatched (the trimmed prompt) decides intake: a length in         *)
(* [1, 500] passes, a length of 0 or above 500 is rejected.                *)
(***************************************************************************)
C6_TrimmedLengthDecides ==
    \A r \in Reqs :
        (Validated(r) /\ GoodImage(req[r].file) /\ IsSome(req[r].prompt))
            => LET n == Len(Trim(The(req[r].prompt)))
               IN  /\ n \in 1..500 => Accepted(r)
                   /\ (n = 0 \/ n > 500) => Rejected(r)

(***************************************************************************)
(* C6 (amended).  With an image attached, intake passes exactly when the   *)
(* prompt is not empty after trimming and the untrimmed prompt has at most *)
(* 500 characters, and is answered 400 otherwise: the emptiness test reads *)
(* the trimmed prompt, the comparison with 500 the untrimmed one.  The     *)
(* prompt stored in the record is the trimmed one, of length 1 to 500.     *)
(***************************************************************************)
C6_IntakeByPrompt ==
    \A r \in Reqs :
        (Validated(r) /\ GoodImage(req[r].file))
            => LET p == req[r].prompt
                   ok == /\ IsSome(p)
                         /\ \E i \in 1..Len(The(p)) : The(p)[i] \notin {" ", "\n"}
                         /\ Len(The(p)) <= 500
               IN  /\ ok => Accepted(r)
                   /\ ~ok => Rejected(r) /\ req[r].genId = 0
                   /\ req[r].genId /= 0 =>
                         LET g == generations[req[r].genId]
                         IN  /\ g.prompt = Trim(The(p))
                             /\ Len(g.prompt) \in 1..500
                             /\ g.prompt[1] \notin {" ", "\n"}
                             /\ g.prompt[Len(g.prompt)] \notin {" ", "\n"}

\* A prompt of 500 characters followed by a line break (501 untrimmed, 500
\* trimmed) has been rejected.
C6_Witness ==
    /\ Rejected(1)
    /\ GoodImage(req[1].file)
    /\ IsSome(req[1].prompt)
    /\ Len(The(req[1].prompt)) = 501
    /\ Len(Trim(The(req[1].prompt))) = 500

(***************************************************************************)
(* Vocabulary of the outcome properties.                                   *)
(***************************************************************************)
\* The dispatcher has returned to the handler, with success or without.
Dispatched(r) == IsSome(req[r].result) /\ req[r].pc \notin {"try1", "try2"}
Succeeded(r) == Dispatched(r) /\ The(req[r].result).success
Failed(r) == Dispatched(r) /\ ~The(req[r].result).success

\* The store's update has returned to the handler.
UpdateReturned(r) == IsSome(req[r].updated)

\* The image payload that the last generation call of r produced.
LastPayload(r) == The(req[r].calls[Len(req[r].calls)].image)

C8_SameErrorText ==
    \A r \in Reqs :
        (Failed(r) /\ UpdateReturned(r) /\ Answered(r))
            => LET g == generations[req[r].genId]
               IN  /\ g.status = "failed"
                   /\ IsSome(g.errorMessage) /\ The(g.errorMessage) /= ""
                   /\ Resp(r).status = 500
                   /\ Resp(r).body.success = Some(FALSE)
                   /\ Resp(r).body.error = g.errorMessage
                   /\ Resp(r).body.error = The(req[r].result).error

(***************************************************************************)
(* C9.  Every answered request has a response produced by the route        *)
(* handler: nothing raised during intake, upload-middleware rejections     *)
(* included, leaves the route as an unhandled error.                       *)
(***************************************************************************)
C9_AnsweredByRoute ==
    \A r \in Reqs :
        Answered(r) => IsSome(req[r].response) /\ Resp(r).by = "route"

(***************************************************************************)
(* C10.  The dispatcher calls the candidate models in list order, each at  *)
(* most once; the call that yields an image payload is the last one, and   *)
(* the dispatcher returns success with that payload.                       *)
(***************************************************************************)
C10_OrderedEarlyReturn ==
    \A r \in Reqs :
        LET log == req[r].calls
        IN  /\ Len(log) <= Len(Candidates)
            /\ \A i \in 1..Len(log) :
                  /\ log[i].model = Candidates[i]
                  /\ IsSome(log[i].image)
                        => /\ i = Len(log)
                           /\ req[r].pc \notin {"try1", "try2"}
                           /\ req[r].result
                                 = Some([success |-> TRUE,
                                         imageData |-> log[i].image,
                                         error |-> None])
            /\ (Succeeded(r) /\ Len(log) > 0) => IsSome(log[Len(log)].image)

\* The primary model has produced an image and the request has been
\* answered after that single call.
C10_Witness ==
    /\ Answered(1)
    /\ Len(req[1].calls) = 1
    /\ req[1].calls[1] = Call(PrimaryModel, Some(PayloadA))
    /\ Succeeded(1)

(***************************************************************************)
(* Vocabulary of the dispatcher's properties.                              *)
(***************************************************************************)
\* The generation calls of request r so far, and the n-th one.
NCalls(r) == Len(req[r].calls)
FailedCall(r, n) == n <= NCalls(r) /\ ~IsSome(req[r].calls[n].image)
RaisedCall(r, n) == n <= NCalls(r) /\ IsSome(req[r].replies[n].raised)
ImageCall(r, n) == n <= NCalls(r) /\ IsSome(req[r].calls[n].image)

\* The dispatcher has returned to the route handler.
Returned(r) == req[r].genId /= 0 /\ req[r].pc \in {"update", "respond", "done"}

(***************************************************************************)
(* C11.  When the first candidate model raises or answers without an       *)
(* image, the dispatcher goes on to the next candidate: the fallback model *)
(* is about to be called or has been called.  When the first candidate     *)
(* has failed and the second has answered with an image, the dispatcher    *)
(* returns success with the second candidate's image, and no generation    *)
(* call follows the second.                                                *)
(***************************************************************************)
C11_FallbackOnFailure ==
    \A r \in Reqs :
        /\ FailedCall(r, 1) =>
              \/ req[r].pc = "try2" /\ NCalls(r) = 1
              \/ NCalls(r) = 2 /\ req[r].calls[2].model = Candidates[2]
        /\ FailedCall(r, 1) /\ ImageCall(r, 2) =>
              /\ req[r].result = Some(Success(The(req[r].calls[2].image)))
              /\ req[r].pc \notin {"try1", "try2"}
        /\ NCalls(r) <= 2

\* The primary model has raised, the fallback has answered with an image.
C11_Witness ==
    /\ RaisedCall(1, 1)
    /\ req[1].calls =
           <<Call(PrimaryModel, None), Call(FallbackModel, Some(PayloadB))>>
    /\ req[1].result = Some(Success(PayloadB))
    /\ req[1].pc = "done"

\* Every candidate model has been called and none has produced an image.
Exhausted(r) ==
    /\ Returned(r)
    /\ NCalls(r) = Len(Candidates)
    /\ \A n \in 1..NCalls(r) : FailedCall(r, n)

(***************************************************************************)
(* C12.  When no candidate model produces an image, whether it raised      *)
(* (with any message, the empty one included) or answered without an       *)
(* image, the dispatcher returns success = false together with an error    *)
(* message that is not the empty string.                                   *)
(***************************************************************************)
C12_ExhaustedHasMessage ==
    \A r \in Reqs :
        Exhausted(r) =>
            /\ IsSome(req[r].result)
            /\ ~The(req[r].result).success
            /\ IsSome(The(req[r].result).error)
            /\ The(The(req[r].result).error) /= ""

\* replit.md:193  the message of a candidate that answered without an image.
NoImageMessage == "Invalid response format (no image part)"

\* The last candidate answered, and its answer carried a text that is not
\* blank.
LastAnswerHasText(r) ==
    /\ NCalls(r) > 0
    /\ ~RaisedCall(r, NCalls(r))
    /\ IsSome(req[r].replies[NCalls(r)].text)

(***************************************************************************)
(* C13.  When every candidate has been tried without an image and the      *)
(* last one has answered, the returned error message is the generic        *)
(* no-image message only when the service returned no text: an answer that *)
(* carries a non-blank text part never yields just the generic message,    *)
(* because the message then includes that text.                            *)
(***************************************************************************)
C13_TextInMessage ==
    \A r \in Reqs :
        Exhausted(r) /\ ~RaisedCall(r, NCalls(r)) =>
            (The(req[r].result).error = Some(NoImageMessage)
                <=> ~LastAnswerHasText(r))

\* The route handler is past its call of the dispatcher.
PastDispatch(r) ==
    req[r].genId /= 0 /\ req[r].pc \in {"update", "respond", "catch", "done"}

(***************************************************************************)
(* C14.  The dispatcher never raises: whenever the route handler is past   *)
(* its call of the dispatcher it holds a result, with success = true and   *)
(* an image or success = false and an error message.  An error raised by   *)
(* the call to the last candidate is returned as success = false with the  *)
(* message of that error (a thrown value that is no Error gets the default *)
(* message).                                                               *)
(***************************************************************************)
C14_DispatcherNeverRaises ==
    \A r \in Reqs :
        /\ PastDispatch(r) =>
              /\ IsSome(req[r].result)
              /\ LET res == The(req[r].result)
                 IN  IF res.success
                     THEN IsSome(res.imageData) /\ ~IsSome(res.error)
                     ELSE IsSome(res.error) /\ ~IsSome(res.imageData)
        /\ RaisedCall(r, Len(Candidates)) =>
              LET e == The(req[r].replies[Len(Candidates)].raised)
              IN  /\ PastDispatch(r)
                  /\ ~The(req[r].result).success
                  /\ e.isError => The(req[r].result).error = Some(e.message)
                  /\ ~e.isError =>
                        The(req[r].result).error = Some("Unknown error occurred")

\* The call to the fallback model has raised "quota exceeded" and the
\* request has been answered from the returned result.
C14_Witness ==
    /\ RaisedCall(1, 2)
    /\ The(req[1].replies[2].raised) = ErrorOf("quota exceeded")
    /\ req[1].result = Some(Failure("quota exceeded"))
    /\ req[1].pc = "done"
    /\ Resp(1).body.error = Some("quota exceeded")

\* The analysis pre-pass is over and has given no anchor: it raised, or its
\* answer had no text.
AnalysisFailed(r) == req[r].analysis /= "none" /\ Len(req[r].anchor) = 0

(***************************************************************************)
(* C15.  The analysis pre-pass is best-effort.  When the analysis call     *)
(* raises or answers with empty text, the instruction is still built, as   *)
(* the guard clause followed by the user's prompt with no PRESERVE line,   *)
(* and the generation calls are still issued.  The dispatch then succeeds  *)
(* exactly when a candidate produces an image, and the error of the        *)
(* analysis call never appears in the result.                              *)
(***************************************************************************)
C15_AnalysisBestEffort ==
    \A r \in Reqs :
        /\ req[r].analysis = "raised" => Len(req[r].anchor) = 0
        /\ AnalysisFailed(r) =>
              /\ req[r].finalPrompt =
                     EDIT_PREFIX \o <<"\n">> \o Trim(The(req[r].prompt))
              /\ \A i \in 1..Len(req[r].finalPrompt) :
                     req[r].finalPrompt[i] /= PreserveLead[2]
              /\ req[r].pc = "try1" \/ NCalls(r) >= 1
              /\ IsSome(req[r].result) =>
                    LET res == The(req[r].result)
                    IN  /\ res.success <=> ImageCall(r, NCalls(r))
                        /\ \A e \in AnalysisErrors :
                               res.error /= Some(e.message)

\* The analysis call has raised, the primary model has produced an image
\* and the request has been answered 200.
C15_Witness ==
    /\ req[1].analysis = "raised"
    /\ req[1].calls = <<Call(PrimaryModel, Some(PayloadA))>>
    /\ req[1].result = Some(Success(PayloadA))
    /\ req[1].pc = "done"
    /\ Resp(1).status = 200

\* The record that request r has created.
Own(r) == generations[req[r].genId]

\* The external service has been called for request r.
ServiceCalled(r) == req[r].analysis /= "none" \/ NCalls(r) > 0

(***************************************************************************)
(* C16.  A record is created only for a request that has passed all of     *)
(* the intake checks (an image within the size limit, a prompt that is not *)
(* blank, at most 500 characters), and before the first call of the        *)
(* external service: a request without a record has made no such call.     *)
(* From its creation until its handler updates it, so during every call of *)
(* the external service, the record is pending with originalImageUrl,      *)
(* generatedImageUrl and errorMessage all null.                            *)
(***************************************************************************)
C16_PendingBeforeService ==
    \A r \in Reqs :
        /\ req[r].genId /= 0 =>
              /\ req[r].genId \in Ids
              /\ GoodImage(req[r].file)
              /\ IsSome(req[r].prompt)
              /\ Len(Trim(The(req[r].prompt))) > 0
              /\ Len(The(req[r].prompt)) <= 500
        /\ req[r].genId = 0 => ~ServiceCalled(r)
        /\ req[r].pc \in {"analyze", "try1", "try2"} => req[r].genId /= 0
        /\ req[r].pc \in {"dispatch", "analyze", "try1", "try2", "update"} =>
              /\ Own(r).status = "pending"
              /\ Own(r).originalImageUrl = None
              /\ Own(r).generatedImageUrl = None
              /\ Own(r).errorMessage = None
              /\ Own(r).prompt = Trim(The(req[r].prompt))

\* The primary model has been called, the fallback is about to be, and the
\* record of the request is pending.
C16_Witness ==
    /\ req[1].pc = "try2"
    /\ req[1].genId = 1
    /\ NCalls(1) = 1
    /\ generations[1].status = "pending"
    /\ generations[1].errorMessage = None

\* The requests that have created a record.
Creators == {r \in Reqs : req[r].genId /= 0}

\* The step is one of request r's handler.
StepOf(r) == req'[r] /= req[r]

(***************************************************************************)
(* C17.  Under concurrent requests every request that passes the intake    *)
(* checks creates a record of its own: the ids of the records are          *)
(* distinct, and every record has exactly one creator.  A step of a        *)
(* handler changes no record but the one that handler created, and adds no *)
(* record but the one it creates.                                          *)
(***************************************************************************)
C17_OwnRecordOnly ==
    /\ [](/\ \A i, j \in Ids :
                i /= j => generations[i].id /= generations[j].id
          /\ \A r1, r2 \in Creators :
                r1 /= r2 => req[r1].genId /= req[r2].genId
          /\ \A i \in Ids : \E r \in Creators : Own(r).id = generations[i].id
          /\ \A r \in Creators : req[r].genId \in Ids)
    /\ [][\A r \in Reqs :
            StepOf(r) =>
                /\ \A i \in Ids :
                       generations'[i] /= generations[i] =>
                           r \in Creators /\ generations[i].id = Own(r).id
                /\ Len(generations') /= Len(generations) =>
                       /\ Len(generations') = Len(generations) + 1
                       /\ req[r].genId = 0
                       /\ req'[r].genId = Len(generations')]_vars

\* Two concurrent requests have been answered, the one that created the
\* second record with a completed record, the other with a failed one.
C17_Witness ==
    /\ Answered(1) /\ Answered(2)
    /\ req[1].genId = 2 /\ req[2].genId = 1
    /\ generations[2].status = "completed"
    /\ generations[1].status = "failed"
    /\ Resp(1).status = 200 /\ Resp(2).status = 500

(***************************************************************************)
(* routes.ts:93-102  GET /api/generations.  The limit parameter of the     *)
(* query is a string, or absent.                                           *)
(***************************************************************************)
MaxStored == 3

Digits == <<"0", "1", "2", "3", "4", "5", "6", "7", "8", "9">>
IsDigit(c) == \E d \in 1..10 : Digits[d] = c
DigitValue(c) == (CHOOSE d \in 1..10 : Digits[d] = c) - 1

\* The number that a string of decimal digits denotes.
DecimalValue(ds) ==
    LET v[i \in 0..Len(ds)] ==
            IF i = 0 THEN 0 ELSE 10 * v[i - 1] + DigitValue(ds[i])
    IN  v[Len(ds)]

\* parseInt(s) for a string s: leading white space is skipped, then an
\* optional sign, then the longest run of decimal digits is read and what
\* follows it is ignored; None is NaN, the result when no digit is read.
parseInt(s) ==
    LET n == Len(s)
        lead == CHOOSE k \in 0..n :
                    /\ k = n \/ s[k + 1] \notin WhiteSpace
                    /\ \A j \in 1..k : s[j] \in WhiteSpace
        t == SubSeq(s, lead + 1, n)
        signed == Len(t) > 0 /\ t[1] \in {"+", "-"}
        body == IF signed THEN Tail(t) ELSE t
        nd == CHOOSE k \in 0..Len(body) :
                  /\ k = Len(body) \/ ~IsDigit(body[k + 1])
                  /\ \A j \in 1..k : IsDigit(body[j])
        mag == DecimalValue(SubSeq(body, 1, nd))
    IN  IF nd = 0 THEN None
        ELSE Some(IF signed /\ t[1] = "-" THEN 0 - mag ELSE mag)

\* routes.ts:95  parseInt(req.query.limit as string) || 10: the default
\* replaces NaN (also the result for an absent parameter) and 0.
LimitOf(q) ==
    LET n == IF IsSome(q) THEN parseInt(The(q)) ELSE None
    IN  IF IsSome(n) /\ The(n) /= 0 THEN The(n) ELSE 10

\* What the clients send as the limit parameter.
Queries ==
    {None, Some(<<>>), Some(<<"1">>), Some(<<"2">>), Some(<<"0">>),
     Some(<<"-", "1">>), Some(<<"a">>), Some(<<" ", "1", "2">>)}

\* The records of the store, the newest first.
RecentFirst ==
    [i \in 1..Len(generations) |-> generations[Len(generations) + 1 - i]]

\* storage.getRecentGenerations(limit), for a positive limit.
getRecentGenerations(limit) == Slice(RecentFirst, limit)

ListAnswer(q, limit, st, list, err) ==
    [op |-> "list", query |-> q, limit |-> limit, status |-> st,
     body |-> list, error |-> err]

\* routes.ts:93-102  the handler.  The store's contract says nothing of a
\* limit that is not positive: it may then return any of the newest
\* records, or raise.
GetGenerations(q) ==
    /\ LET limit == LimitOf(q)
       IN  \/ /\ limit > 0
              /\ probe' = ListAnswer(q, limit, 200,
                                     getRecentGenerations(limit), None)
           \/ /\ limit <= 0
              /\ \E k \in 0..Len(generations) :
                    probe' = ListAnswer(q, limit, 200,
                                        Slice(RecentFirst, k), None)
           \/ probe' = ListAnswer(q, limit, 500, <<>>,
                                  Some("Failed to fetch generations"))
    /\ UNCHANGED <<req, generations, nUpdates, client>>

\* A store that earlier requests have filled with k records.
Stored(k) ==
    [i \in 1..k |->
        [NewGeneration(i, <<"a">>) EXCEPT
            !.status = "completed",
            !.generatedImageUrl = Some(DataUrlPrefix \o PayloadA)]]

InitList ==
    /\ req = [r \in Reqs |-> IdleReq]
    /\ \E k \in 0..MaxStored :
          /\ generations = Stored(k)
          /\ nUpdates = [i \in 1..k |-> 1]
    /\ probe = NoProbe
    /\ client = Mounted

\* One client posts while others list the records.
NextList ==
    \/ Step(1, Env)
    \/ \E q \in Queries : GetGenerations(q)

SpecList == InitList /\ [][NextList]_vars

\* The list is ordered by createdAt, the newest first.
NewestFirst(list) ==
    \A i, j \in 1..Len(list) : i < j => list[i].createdAt >= list[j].createdAt

(***************************************************************************)
(* C18.  GET /api/generations hands the store the integer of the limit     *)
(* parameter when that is a positive integer and 10 when the parameter is  *)
(* absent, not a number, zero or negative, so the store is never asked for *)
(* a number of records that is not positive; the answer holds at most that *)
(* many records, the newest first.                                         *)
(***************************************************************************)
C18_ListLimit ==
    probe.op = "list" =>
        LET n == IF IsSome(probe.query) THEN parseInt(The(probe.query))
                 ELSE None
        IN  /\ probe.limit = IF IsSome(n) /\ The(n) > 0 THEN The(n) ELSE 10
            /\ probe.limit > 0
            /\ probe.status = 200 =>
                  /\ Len(probe.body) <= probe.limit
                  /\ NewestFirst(probe.body)

(***************************************************************************)
(* gemini.ts:152-161  the pure helpers stripDataUrl and padBase64, applied *)
(* to strings drawn from bounded sets.                                     *)
(***************************************************************************)
MaxB64 == 5

\* The same expression without the test of the remainder: four pad
\* characters are added to a string whose length is a multiple of 4.
padBase64Always(b64) == b64 \o Rep("=", 4 - (Len(b64) % 4))

\* gemini.ts:157-161  padBase64
padBase64(b64) ==
    LET rem == Len(b64) % 4
    IN  IF rem /= 0 THEN b64 \o Rep("=", 4 - rem) ELSE b64

DataScheme == <<"d", "a", "t", "a", ":">>
Base64Mark == <<";", "b", "a", "s", "e", "6", "4", ",">>
LineTerminators == {"\n", "\r"}

\* gemini.ts:152-155  stripDataUrl: input.match(/^data:[^;]+;base64,(.+)$/).
\* After "data:" the class [^;]+ takes at least one character and stops at
\* the first ";" of the input, where ";base64," has to follow; the group
\* (.+) is the rest of the input, at least one character, none of them a
\* line terminator.
stripDataUrl(input) ==
    LET n == Len(input)
        semis == {i \in 1..n : input[i] = ";"}
        k == MinOf(semis)
        m == /\ StartsWith(input, DataScheme)
             /\ semis /= {}
             /\ k > Len(DataScheme) + 1
             /\ k + Len(Base64Mark) <= n
             /\ SubSeq(input, k, k + Len(Base64Mark) - 1) = Base64Mark
             /\ \A i \in (k + Len(Base64Mark))..n :
                    input[i] \notin LineTerminators
    IN  IF m THEN SubSeq(input, k + Len(Base64Mark), n) ELSE input

\* The strings of base64 characters of at most MaxB64 characters.
B64Strings == UNION {[1..n -> {"Q", "="}] : n \in 0..MaxB64}

\* Media types: a bare one, and one with a parameter.
MediaTypes ==
    {MimePng,
     MimePng \o <<";", "c", "h", "a", "r", "s", "e", "t", "=", "x">>}

\* data:<media type>;base64,<payload>
Wrap(media, payload) == DataScheme \o media \o Base64Mark \o payload

\* One application of a helper: its input (for stripDataUrl also how the
\* input was made), its output, and the output of applying it again.
PureCall(op, wrapped, media, payload, input) ==
    [op |-> op, wrapped |-> wrapped, media |-> media, payload |-> payload,
     input |-> input, output |-> None, again |-> None]

PadInputs == {PureCall("padBase64", FALSE, <<>>, s, s) : s \in B64Strings}
StripInputs ==
    {PureCall("stripDataUrl", TRUE, m, s, Wrap(m, s)) :
        m \in MediaTypes, s \in B64Strings}
    \cup {PureCall("stripDataUrl", FALSE, <<>>, s, s) :
            s \in B64Strings \cup {DataScheme \o MimePng}}

\* The parts a candidate may hold: an image under either layout, a text, a
\* blob that is no image, a blob without data.
MaxParts == 2
PartKinds ==
    {InlinePart(PayloadA), MediaPart(PayloadB), TextPart(<<"n", "o">>),
     Part(Some(Blob(PayloadA, MimeText)), None, None),
     Part(None, Some(Blob(<<>>, MimePng)), None)}
PartLists == UNION {[1..n -> PartKinds] : n \in 0..MaxParts}

\* Responses: one candidate at the top level or in the wrapper; both lists
\* present; a second candidate that holds an image; no list at all.
ExtractResponses ==
    {Bare(<<ps>>) : ps \in PartLists}
    \cup {InWrapper(<<ps>>) : ps \in PartLists}
    \cup {RawResponse(Some([candidates |-> Some(<<ps>>)]),
                      Some(<< <<InlinePart(PayloadA)>> >>)) :
             ps \in {<<>>, <<MediaPart(PayloadB)>>}}
    \cup {RawResponse(Some([candidates |-> None]),
                      Some(<< <<MediaPart(PayloadB)>> >>)),
          Bare(<< <<>>, <<InlinePart(PayloadA)>> >>),
          Bare(<<>>), InWrapper(<<>>), RawResponse(None, None)}
ExtractInputs ==
    {PureCall("extractImageBase64", FALSE, <<>>, <<>>, res) :
        res \in ExtractResponses}

InitPure ==
    /\ req = [r \in Reqs |-> IdleReq]
    /\ generations = <<>>
    /\ nUpdates = <<>>
    /\ probe \in PadInputs \cup StripInputs \cup ExtractInputs
    /\ client = Mounted

ApplyPadBase64 ==
    /\ probe.op = "padBase64"
    /\ probe.output = None
    /\ probe' = [probe EXCEPT
          !.output = Some(padBase64(probe.input)),
          !.again = Some(padBase64(padBase64(probe.input)))]
    /\ UNCHANGED <<req, generations, nUpdates, client>>

ApplyStripDataUrl ==
    /\ probe.op = "stripDataUrl"
    /\ probe.output = None
    /\ probe' = [probe EXCEPT
          !.output = Some(stripDataUrl(probe.input)),
          !.again = Some(stripDataUrl(stripDataUrl(probe.input)))]
    /\ UNCHANGED <<req, generations, nUpdates, client>>

ApplyExtractImageBase64 ==
    /\ probe.op = "extractImageBase64"
    /\ probe.output = None
    /\ probe' = [probe EXCEPT
          !.output = Some(extractImageBase64(probe.input))]
    /\ UNCHANGED <<req, generations, nUpdates, client>>

NextPure == ApplyPadBase64 \/ ApplyStripDataUrl \/ ApplyExtractImageBase64

SpecPure == InitPure /\ [][NextPure]_vars

(***************************************************************************)
(* C19.  For every string s, padBase64(s) is s followed only by '='        *)
(* characters, fewer than four of them, and its length is divisible by 4;  *)
(* when the length of s is divisible by 4 already, padBase64(s) = s.       *)
(* Hence padBase64 is idempotent.                                          *)
(***************************************************************************)
C19_PadBase64 ==
    probe.op = "padBase64" /\ IsSome(probe.output) =>
        LET s == probe.input
            p == The(probe.output)
        IN  /\ Len(p) % 4 = 0
            /\ Len(s) <= Len(p) /\ Len(p) < Len(s) + 4
            /\ SubSeq(p, 1, Len(s)) = s
            /\ \A i \in (Len(s) + 1)..Len(p) : p[i] = "="
            /\ Len(s) % 4 = 0 => p = s
            /\ The(probe.again) = p

\* A string of five characters has been padded with three '='.
C19_Witness ==
    /\ probe.op = "padBase64"
    /\ probe.input = <<"Q", "Q", "Q", "Q", "Q">>
    /\ probe.output = Some(<<"Q", "Q", "Q", "Q", "Q", "=", "=", "=">>)

(***************************************************************************)
(* C20.  For every input made of a data-URL wrapper and a payload, the     *)
(* empty payload and a media type with parameters included, stripDataUrl   *)
(* returns exactly the payload, so that wrapping its output again gives    *)
(* the input back; every input without a wrapper is returned unchanged.    *)
(***************************************************************************)
C20_StripDataUrl ==
    probe.op = "stripDataUrl" /\ IsSome(probe.output) =>
        IF probe.wrapped
        THEN /\ The(probe.output) = probe.payload
             /\ Wrap(probe.media, The(probe.output)) = probe.input
        ELSE The(probe.output) = probe.input

(***************************************************************************)
(* C21.  Image extraction looks at the parts of the first candidate, the   *)
(* candidate list being the one in the response wrapper when the wrapper   *)
(* has one and the top-level one otherwise.  If any part carries an image  *)
(* under inlineData, the first such part's data is returned, even when a   *)
(* part with an image under media[0] comes earlier in the list; the media  *)
(* layout is used only when no part has an inlineData image; and null is   *)
(* returned exactly when no part carries an image under either layout.     *)
(***************************************************************************)
C21_ExtractionPriority ==
    probe.op = "extractImageBase64" /\ IsSome(probe.output) =>
        LET res == probe.input
            out == The(probe.output)
            wrapped == IsSome(res.response)
                       /\ IsSome(The(res.response).candidates)
            cands == IF wrapped THEN The(The(res.response).candidates)
                     ELSE IF IsSome(res.candidates) THEN The(res.candidates)
                     ELSE <<>>
            parts == IF cands = <<>> THEN <<>> ELSE cands[1]
            inl == {i \in 1..Len(parts) : IsImageBlob(parts[i].inlineData)}
            med == {i \in 1..Len(parts) : IsImageBlob(parts[i].media)}
        IN  /\ inl /= {} =>
                  out = Some(The(parts[MinOf(inl)].inlineData).data)
            /\ inl = {} /\ med /= {} =>
                  out = Some(The(parts[MinOf(med)].media).data)
            /\ out = None <=> inl = {} /\ med = {}

\* A media[0] image comes first in the list, an inlineData image second:
\* the inlineData image is returned.
C21_Witness ==
    /\ probe.op = "extractImageBase64"
    /\ probe.input = Bare(<< <<MediaPart(PayloadB), InlinePart(PayloadA)>> >>)
    /\ probe.output = Some(Some(PayloadA))

(***************************************************************************)
(* analyzeImage, called on its own: gemini.ts:247-270 (allow-list of mime  *)
(* types, no try/catch) and replit.md:253-282 (try/catch that rethrows).   *)
(* The arguments are drawn at the start; the service answers or raises     *)
(* when it is called.                                                      *)
(***************************************************************************)
MimeJpeg == ImagePrefix \o <<"j", "p", "e", "g">>
MimeWebp == ImagePrefix \o <<"w", "e", "b", "p">>

\* gemini.ts:134
ALLOWED_MIME == {MimePng, MimeJpeg, MimeWebp}

\* What a call of the service comes to: an answer, or an error raised.
ServiceAnswer(res) == [raised |-> None, res |-> Some(res)]
ServiceRaise(e) == [raised |-> Some(e), res |-> None]

\* What an async function comes to: a value returned, or an error raised.
Resolves(v) == [kind |-> "returned", value |-> v]
Throws(e) == [kind |-> "raised", value |-> e]

UnableToAnalyze == <<"Unable to analyze image">>

\* extractText(res) || "Unable to analyze image"
TextOrUnable(res) ==
    LET t == extractText(res)
    IN  IF IsSome(t) /\ Len(The(t)) > 0 THEN The(t) ELSE UnableToAnalyze

\* gemini.ts:251-253  the answer to a mime type outside the allow-list.
UnsupportedMime(mimeType) ==
    <<"Unsupported mimeType \"">> \o mimeType
        \o <<"\". Use image/png, image/jpeg or image/webp.">>

\* An analysis that catches the error of the service call and returns the
\* fallback string instead.
analyzeImageSwallow(mimeType, outcome) ==
    IF mimeType \notin ALLOWED_MIME THEN Resolves(UnsupportedMime(mimeType))
    ELSE IF IsSome(outcome.raised) THEN Resolves(UnableToAnalyze)
    ELSE Resolves(TextOrUnable(The(outcome.res)))

\* gemini.ts:247-270  analyzeImage; outcome is what the service call comes
\* to, once the call is made.
analyzeImage(mimeType, outcome) ==
    IF mimeType \notin ALLOWED_MIME THEN Resolves(UnsupportedMime(mimeType))
    ELSE IF IsSome(outcome.raised) THEN Throws(The(outcome.raised))
    ELSE Resolves(TextOrUnable(The(outcome.res)))

\* error instanceof Error ? error.message : String(error)
ErrorString(e) == IF e.isError THEN e.message ELSE "String(error)"

\* replit.md:253-282  analyzeImage with its try/catch: the error of the
\* call is wrapped and raised again.
analyzeImageRethrow(mimeType, outcome) ==
    IF IsSome(outcome.raised)
    THEN Throws(ErrorOf(<<"Failed to analyze image: ",
                          ErrorString(The(outcome.raised))>>))
    ELSE Resolves(TextOrUnable(The(outcome.res)))

\* The answers of the service to an analysis call.
AnalyzeResponses ==
    {Bare(<<>>), RawResponse(None, None),
     Bare(<< <<TextPart(<<"n", "o">>)>> >>),
     InWrapper(<< <<TextPart(<<" ">>), TextPart(<<"o", "k">>)>> >>),
     Bare(<< <<InlinePart(PayloadA)>> >>),
     Bare(<< <<TextPart(<<"\n">>)>> >>),
     WithText(Bare(<<>>), <<"h", "i">>),
     WithText(Bare(<< <<TextPart(<<"o", "k">>)>> >>), <<" ">>)}

\* One call of analyzeImage: its arguments, the image text handed to the
\* service, what the service call came to, what the function came to.
AnalyzeCall(version, imageData, mimeType) ==
    [op |-> "analyzeImage", version |-> version, imageData |-> imageData,
     mimeType |-> mimeType, sent |-> None, service |-> None, output |-> None]

AnalyzeInputs ==
    {AnalyzeCall(v, d, m) :
        v \in {"gemini.ts", "replit.md"},
        d \in {PayloadA, Wrap(MimePng, PayloadA), <<"Q", "Q">>},
        m \in {MimePng, MimeJpeg, MimeGif, <<>>}}

InitCalls ==
    /\ req = [r \in Reqs |-> IdleReq]
    /\ generations = <<>>
    /\ nUpdates = <<>>
    /\ probe \in AnalyzeInputs
    /\ client = Mounted

\* gemini.ts:251-253  the mime type is refused, the service is not called.
AnalyzeRefused ==
    /\ probe.op = "analyzeImage" /\ probe.version = "gemini.ts"
    /\ probe.output = None
    /\ probe.mimeType \notin ALLOWED_MIME
    /\ probe' = [probe EXCEPT
          !.output = Some(analyzeImage(probe.mimeType, ServiceRaise(NonError)))]
    /\ UNCHANGED <<req, generations, nUpdates, client>>

\* gemini.ts:254-269  the service is called.
AnalyzeImage ==
    /\ probe.op = "analyzeImage" /\ probe.version = "gemini.ts"
    /\ probe.output = None
    /\ probe.mimeType \in ALLOWED_MIME
    /\ \E o \in {ServiceAnswer(res) : res \in AnalyzeResponses}
                \cup {ServiceRaise(e) : e \in ServiceErrorsWide} :
          probe' = [probe EXCEPT
             !.sent = Some(padBase64(stripDataUrl(probe.imageData))),
             !.service = Some(o),
             !.output = Some(analyzeImage(probe.mimeType, o))]
    /\ UNCHANGED <<req, generations, nUpdates, client>>

\* replit.md:257-281  the service is called.
AnalyzeImageRethrow ==
    /\ probe.op = "analyzeImage" /\ probe.version = "replit.md"
    /\ probe.output = None
    /\ \E o \in {ServiceAnswer(res) : res \in AnalyzeResponses}
                \cup {ServiceRaise(e) : e \in ServiceErrorsWide} :
          probe' = [probe EXCEPT
             !.sent = Some(stripDataUrl(probe.imageData)),
             !.service = Some(o),
             !.output = Some(analyzeImageRethrow(probe.mimeType, o))]
    /\ UNCHANGED <<req, generations, nUpdates, client>>

NextCalls == AnalyzeRefused \/ AnalyzeImage \/ AnalyzeImageRethrow

SpecCalls == InitCalls /\ [][NextCalls]_vars

\* The texts of an answer that are not blank: res.text, and the text parts
\* of the first candidate.
AnswerTexts(res) ==
    LET cands == extractCandidates(res)
        parts == IF Len(cands) = 0 THEN <<>> ELSE cands[1]
    IN  {res.text[1] : i \in {1} \cap DOMAIN res.text}
        \cup {The(parts[i].text) : i \in {j \in 1..Len(parts) :
                                            IsSome(parts[j].text)}}
NonBlank(texts) == {t \in texts : \E i \in 1..Len(t) : t[i] \notin WhiteSpace}

(***************************************************************************)
(* C22.  analyzeImage raises exactly when its call of the external service *)
(* raises.  When the service answers, analyzeImage returns a text of the   *)
(* answer that is not blank if there is one, and the literal "Unable to    *)
(* analyze image" if there is none; when the service is not called,        *)
(* analyzeImage returns a string.                                          *)
(***************************************************************************)
C22_AnalyzeImage ==
    probe.op = "analyzeImage" /\ IsSome(probe.output) =>
        LET out == The(probe.output)
            called == IsSome(probe.service)
            failed == called /\ IsSome(The(probe.service).raised)
        IN  /\ out.kind = "raised" <=> failed
            /\ called /\ ~failed =>
                  LET texts == NonBlank(AnswerTexts(The(The(probe.service).res)))
                  IN  /\ texts /= {} => out.value \in texts
                      /\ texts = {} => out.value = UnableToAnalyze
            /\ ~called => out.kind = "returned"

\* The service has answered with an image and no text: the fallback string
\* is returned.
C22_Witness ==
    /\ probe.op = "analyzeImage"
    /\ probe.version = "gemini.ts"
    /\ probe.service = Some(ServiceAnswer(Bare(<< <<InlinePart(PayloadA)>> >>)))
    /\ probe.output = Some(Resolves(UnableToAnalyze))

\* The request that the handler of r hands to the dispatcher fails one of
\* the dispatcher's own checks: no image text, no mime type, a blank prompt.
Refusable(r) ==
    /\ req[r].genId /= 0
    /\ \/ Base64Len(The(req[r].file).size) = 0
       \/ Len(The(req[r].file).mimetype) = 0
       \/ Len(Trim(The(req[r].prompt))) = 0

(***************************************************************************)
(* C23.  The dispatcher calls the external service only for a request with *)
(* a non-empty image text, a non-empty mime type and a prompt that is not  *)
(* blank; for a request that fails one of these checks it returns          *)
(* success = false without any call of the service.  Consequently, once    *)
(* such a request has been answered, the record created for it is failed.  *)
(***************************************************************************)
C23_RefusedWithoutCall ==
    \A r \in Reqs :
        /\ ServiceCalled(r) => req[r].genId /= 0 /\ ~Refusable(r)
        /\ Refusable(r) /\ PastDispatch(r) =>
              /\ ~ServiceCalled(r)
              /\ IsSome(req[r].result) /\ ~The(req[r].result).success
        /\ Refusable(r) /\ Answered(r) => Own(r).status = "failed"

\* The same without the consequence for the record.
C23_ChecksBeforeCall ==
    \A r \in Reqs :
        /\ ServiceCalled(r) => req[r].genId /= 0 /\ ~Refusable(r)
        /\ Refusable(r) /\ PastDispatch(r) =>
              /\ ~ServiceCalled(r)
              /\ IsSome(req[r].result) /\ ~The(req[r].result).success

(***************************************************************************)
(* C24.  Every result that the dispatcher returns is well-formed: with     *)
(* success = true the image data is present and not empty and there is no  *)
(* error; with success = false there is no image data.  Hence the test of  *)
(* the handler, result.success && result.imageData, takes the failure      *)
(* branch only for a result with success = false.                          *)
(***************************************************************************)
C24_ResultWellFormed ==
    \A r \in Reqs :
        IsSome(req[r].result) =>
            LET res == The(req[r].result)
            IN  /\ res.success =>
                      /\ IsSome(res.imageData)
                      /\ Len(The(res.imageData)) > 0
                      /\ res.error = None
                /\ ~res.success => res.imageData = None
                /\ TakesSuccessBranch(res) <=> res.success

\* The fallback model has produced an image, and the handler has completed
\* the record on the success branch.
C24_Witness ==
    /\ req[1].result = Some(Success(PayloadB))
    /\ TakesSuccessBranch(The(req[1].result))
    /\ NCalls(1) = 2
    /\ req[1].pc = "respond"
    /\ Own(1).status = "completed"

(***************************************************************************)
(* C25.  Exactly one HTTP response is sent for every POST /api/generate:   *)
(* never two (at no time have two responses been sent for a request, and   *)
(* an answered request has had exactly one), and never none (every request *)
(* that arrives is answered), whether it is rejected by a validation       *)
(* check, takes the success or the failure branch, or an await raises.     *)
(***************************************************************************)
C25_ExactlyOneResponse ==
    /\ [](\A r \in Reqs :
             /\ req[r].nSent <= 1
             /\ Answered(r) <=> req[r].nSent = 1
             /\ req[r].nSent = 1 <=> IsSome(req[r].response))
    /\ \A r \in {1} : Arrived(r) ~> (Answered(r) /\ req[r].nSent = 1)

\* updateGeneration has raised, and the catch block has sent the only
\* response of the request.
C25_Witness ==
    /\ Answered(1)
    /\ IsSome(req[1].thrown)
    /\ IsSome(req[1].result)
    /\ req[1].nSent = 1
    /\ Resp(1).status = 500

(***************************************************************************)
(* C26.  The terminal update of a record changes only its status and one   *)
(* outcome field: completing sets generatedImageUrl and leaves             *)
(* errorMessage null, failing sets errorMessage and leaves                 *)
(* generatedImageUrl null, and id, prompt, originalImageUrl and createdAt  *)
(* are unchanged by either.  So in every state a completed record has      *)
(* generatedImageUrl set and errorMessage null, a failed record has        *)
(* errorMessage set and generatedImageUrl null, and a pending record has   *)
(* both null.                                                              *)
(***************************************************************************)
C26_UpdateFrame ==
    /\ [](\A i \in Ids :
             LET g == generations[i]
             IN  /\ g.status \in {"pending", "completed", "failed"}
                 /\ g.status = "completed" =>
                       IsSome(g.generatedImageUrl) /\ g.errorMessage = None
                 /\ g.status = "failed" =>
                       IsSome(g.errorMessage) /\ g.generatedImageUrl = None
                 /\ g.status = "pending" =>
                       g.generatedImageUrl = None /\ g.errorMessage = None
                 /\ g.originalImageUrl = None)
    /\ [][\A i \in Ids :
            generations'[i] /= generations[i] =>
                LET g == generations[i]
                    h == generations'[i]
                IN  /\ h.id = g.id /\ h.prompt = g.prompt
                    /\ h.originalImageUrl = g.originalImageUrl
                    /\ h.createdAt = g.createdAt
                    /\ h.status \in Terminal
                    /\ h.status = "completed" =>
                          /\ IsSome(h.generatedImageUrl)
                          /\ h.errorMessage = g.errorMessage
                    /\ h.status = "failed" =>
                          /\ IsSome(h.errorMessage)
                          /\ h.generatedImageUrl = g.generatedImageUrl]_vars

\* Of two concurrent requests one has completed its record and the other
\* has failed its record.
C26_Witness ==
    /\ Len(generations) = 2
    /\ generations[1].status = "completed"
    /\ generations[1].generatedImageUrl = Some(DataUrlPrefix \o PayloadA)
    /\ generations[1].errorMessage = None
    /\ generations[2].status = "failed"
    /\ generations[2].errorMessage = Some("quota exceeded")
    /\ generations[2].generatedImageUrl = None

(***************************************************************************)
(* The client page ImageGenerator (part_000).  The page state is the       *)
(* useState fields and the status of the generate mutation; one action is  *)
(* one event handler, or one settled request with its callback, together   *)
(* with the render that follows it.                                        *)
(***************************************************************************)
MaxClientPrompt == 4

\* Files that pass handleFileValidation of the upload zone.
ClientFiles == {"cat.png", "dog.jpg"}

\* What the user types into the textarea (maxLength 500).
TypedPrompts == {<<>>, <<" ">>, <<"a">>, <<" ", "a", " ">>}

\* part_000:198-214  the three suggestion buttons.
Suggestions ==
    {"oil painting style", "cyberpunk aesthetic", "watercolor painting"}

\* A JavaScript string used as a condition: null, undefined and "" are falsy.
Truthy(o) == IsSome(o) /\ The(o) /= <<>>

isPending(c) == c.status = "pending"

isError(c) == c.status = "error"

\* The same condition without the test of the mutation.
canGenerateWhilePending(c) ==
    IsSome(c.selectedFile) /\ Len(Trim(c.prompt)) > 0

\* part_000:131
canGenerate(c) ==
    IsSome(c.selectedFile) /\ Len(Trim(c.prompt)) > 0 /\ ~isPending(c)

\* generateMutation.mutate: the mutation becomes pending and mutationFn
\* starts its fetch.
mutate(c, variables) ==
    [c EXCEPT !.status = "pending", !.error = None,
              !.sent = Some(variables), !.inFlight = @ + 1]

\* part_000:96-101
handleGenerate(c) ==
    IF ~IsSome(c.selectedFile) \/ Trim(c.prompt) = <<>>
    THEN c
    ELSE mutate([c EXCEPT !.generatedImageUrl = None],
                [file |-> The(c.selectedFile), prompt |-> Trim(c.prompt)])

\* part_000:114-121  the mutation is not reset.
handleNewGeneration(c) ==
    [c EXCEPT !.generatedImageUrl = None, !.prompt = <<>>,
              !.selectedFile = None]

\* part_000:123-129
insertPromptSuggestion(c, suggestion) ==
    IF Trim(c.prompt) /= <<>>
    THEN [c EXCEPT !.prompt = @ \o <<",", " ">> \o <<suggestion>>]
    ELSE [c EXCEPT !.prompt = <<suggestion>>]

\* What the fetch of mutationFn can bring back: a 2xx answer whose body
\* has an imageUrl, an empty one or none, an answer that is not ok with or
\* without an error field, or a rejected fetch.
ClientReplies ==
    {[ok |-> TRUE, imageUrl |-> u, error |-> None] :
        u \in {Some(DataUrlPrefix \o PayloadA), Some(<<>>), None}}
    \cup {[ok |-> FALSE, imageUrl |-> None, error |-> e] :
        e \in {Some("Failed to generate image"), None}}

\* part_000:49-52  throw new Error(error.error || 'Generation failed')
ReplyError(reply) ==
    IF IsSome(reply.error) /\ The(reply.error) /= ""
    THEN ErrorOf(The(reply.error))
    ELSE ErrorOf("Generation failed")

\* part_000:54-55, 61-68  mutationFn returns the body, onSuccess stores its
\* imageUrl, the mutation is a success.
onSuccess(c, data) ==
    [c EXCEPT !.generatedImageUrl = data.imageUrl, !.status = "success",
              !.inFlight = @ - 1]

\* part_000:49-52, 70-76  mutationFn throws, onError only shows a toast,
\* the mutation is an error.
onError(c, error) ==
    [c EXCEPT !.status = "error", !.error = Some(error), !.inFlight = @ - 1]

\* part_000:267, 277, 289, 323  the conditions of the four result panels.
EmptyPanel(c) ==
    ~isPending(c) /\ ~Truthy(c.generatedImageUrl) /\ ~isError(c)

LoadingPanel(c) == isPending(c)

SuccessPanel(c) == Truthy(c.generatedImageUrl)

ErrorPanel(c) == isError(c)

PanelsShown(c) ==
    {p \in {"empty", "loading", "success", "error"} :
        \/ p = "empty" /\ EmptyPanel(c)
        \/ p = "loading" /\ LoadingPanel(c)
        \/ p = "success" /\ SuccessPanel(c)
        \/ p = "error" /\ ErrorPanel(c)}

ServerIdle == UNCHANGED <<req, generations, nUpdates, probe>>

\* part_000:85-87
SelectFile ==
    /\ \E f \in ClientFiles :
          client' = [client EXCEPT !.selectedFile = Some(f)]
    /\ ServerIdle

\* part_000:89-94
RemoveFile ==
    /\ IsSome(client.selectedFile)
    /\ client' = [client EXCEPT !.selectedFile = None]
    /\ ServerIdle

\* part_000:188  onChange={(e) => setPrompt(e.target.value)}
EditPrompt ==
    /\ \E p \in TypedPrompts : client' = [client EXCEPT !.prompt = p]
    /\ ServerIdle

\* part_000:198-214  a click on a suggestion button.
InsertSuggestion ==
    /\ \E s \in Suggestions :
          /\ Len(insertPromptSuggestion(client, s).prompt) <= MaxClientPrompt
          /\ client' = insertPromptSuggestion(client, s)
    /\ ServerIdle

\* part_000:233-238  a click on the generate button, which is enabled.
ClickGenerate ==
    /\ canGenerate(client)
    /\ client' = handleGenerate(client)
    /\ ServerIdle

\* part_000:323-340  a click on the retry button of the error panel.
ClickRetry ==
    /\ ErrorPanel(client)
    /\ canGenerate(client)
    /\ client' = handleGenerate(client)
    /\ ServerIdle

\* part_000:289-316  a click on the new-image button of the success panel.
ClickNewGeneration ==
    /\ SuccessPanel(client)
    /\ client' = handleNewGeneration(client)
    /\ ServerIdle

\* part_000:40-76  the pending request settles.
RequestSettles ==
    /\ isPending(client)
    /\ client.inFlight > 0
    /\ \E reply \in ClientReplies :
          client' = IF reply.ok THEN onSuccess(client, reply)
                    ELSE onError(client, ReplyError(reply))
    /\ ServerIdle

InitClient ==
    /\ req = [r \in Reqs |-> IdleReq]
    /\ generations = <<>>
    /\ nUpdates = <<>>
    /\ probe = NoProbe
    /\ client = Mounted

NextClient ==
    \/ SelectFile
    \/ RemoveFile
    \/ EditPrompt
    \/ InsertSuggestion
    \/ ClickGenerate
    \/ ClickRetry
    \/ ClickNewGeneration
    \/ RequestSettles

SpecClient == InitClient /\ [][NextClient]_vars

\* C27: in every state the client can reach by file selections and removals,
\* prompt edits, generate, retry and new-image clicks and settled requests,
\* exactly one of the four result panels is shown; while the mutation is
\* pending the generate button is disabled and the retry button is not
\* shown, a request is started only when none is pending, and at most one
\* request is in flight.
C27_OnePanelOneRequest ==
    /\ [](/\ Cardinality(PanelsShown(client)) = 1
          /\ client.inFlight <= 1
          /\ isPending(client) <=> client.inFlight = 1
          /\ isPending(client) =>
                ~canGenerate(client) /\ ~ErrorPanel(client))
    /\ [][client'.inFlight > client.inFlight => ~isPending(client)]_vars

\* A request is in flight, only the loading panel is shown, and the user has
\* meanwhile removed the file and changed the prompt.
C27_Witness ==
    /\ PanelsShown(client) = {"loading"}
    /\ client.inFlight = 1
    /\ IsSome(client.sent)
    /\ client.selectedFile = None
    /\ client.prompt /= The(client.sent).prompt
====
